---------------------------- MODULE Spec2Model ----------------------------
(***************************************************************************)
(* Model of misconfig-configtemplateenforcer (src/main.py).                *)
(*                                                                         *)
(* validate_config is a synchronous function of its four arguments whose   *)
(* only side effect is what it logs.  It is modelled as a recursive        *)
(* operator that computes the returned boolean, the sequence of log        *)
(* records and whether an exception escaped.  Two specifications use it:   *)
(*   Spec      a driver that calls validate_config on one (config,         *)
(*             template) pair with strict off and with strict on;          *)
(*   SpecMain  one run of main(): type inference, linting, loading of the  *)
(*             two files, validation, exit status.                         *)
(***************************************************************************)
EXTENDS Integers, Sequences, FiniteSets

VARIABLES
  config_data,     \* the parsed configuration document (main.py:223)
  template_data,   \* the parsed template document (main.py:224)
  ignore_missing,  \* --ignore_missing (main.py:53)
  runs,            \* strict flag -> outcome of validate_config called with it
  pc,              \* position of main()
  cli,             \* the parsed command line (main.py:202)
  file_type,       \* main's local file_type (main.py:206)
  linter,          \* how the linter run by lint_file ended, "none" when not run
  exit_status      \* the process' exit status, -1 while running

vars == <<config_data, template_data, ignore_missing, runs, pc, cli,
          file_type, linter, exit_status>>

(***************************************************************************)
(* Bounds of the model.                                                    *)
(***************************************************************************)
\* Largest number of keys (over all nesting levels) of a configuration and
\* of a template of Spec.
MaxConfigSize == 2
MaxTemplateSize == 3
\* Largest number of keys of a document loaded by main() in SpecMain.
MaxMainSize == 1

Keys == {"a", "b"}

(***************************************************************************)
(* Python values.  type is the name of the value's Python class, val the   *)
(* literal of a scalar, items the (key, value) pairs of a dict in          *)
(* insertion order or the elements of a list.                              *)
(***************************************************************************)
PyInt(v)      == [type |-> "int", val |-> v, items |-> <<>>]
PyStr(v)      == [type |-> "str", val |-> v, items |-> <<>>]
PyNone        == [type |-> "NoneType", val |-> "null", items |-> <<>>]
PyList(elems) == [type |-> "list", val |-> "", items |-> elems]
PyDict(items) == [type |-> "dict", val |-> "", items |-> items]
Item(k, v)  == [key |-> k, value |-> v]

\* isinstance(v, dict)
IsDict(v) == v.type = "dict"

\* the keys of a dict, in insertion order
KeysOf(d) == [i \in 1..Len(d.items) |-> d.items[i].key]

KeySet(d) == {d.items[i].key : i \in 1..Len(d.items)}

\* d[key] for a key of the dict d
Get(d, key) == d.items[CHOOSE i \in 1..Len(d.items) : d.items[i].key = key].value


(***************************************************************************)
(* Python's container protocol on the values validate_config may be        *)
(* handed.  load_file returns whatever the document holds (main.py:88,90), *)
(* so the root arguments need not be dicts.                                *)
(***************************************************************************)
\* `key in container` (main.py:162): "yes", "no", or "TypeError" when the
\* container supports no membership test.  On a str it is the substring
\* test; keys and str values of the model are one character long, for which
\* it is equality.
Contains(container, key) ==
  CASE container.type = "dict" -> IF key \in KeySet(container) THEN "yes" ELSE "no"
    [] container.type = "list" ->
         IF \E i \in 1..Len(container.items) : container.items[i] = PyStr(key)
         THEN "yes" ELSE "no"
    [] container.type = "str"  -> IF container.val = key THEN "yes" ELSE "no"
    [] OTHER -> "TypeError"

\* `for key in container` (main.py:190): the sequence iterated, as the text
\* the f-string of main.py:192 prints for each element.
Iterate(container) ==
  CASE container.type = "dict" -> KeysOf(container)
    [] container.type = "list" ->
         [i \in 1..Len(container.items) |-> container.items[i].val]
    [] container.type = "str"  -> <<container.val>>
    [] OTHER -> <<>>

\* whether `for key in container` raises TypeError (not iterable)
NotIterable(container) == container.type \notin {"dict", "list", "str"}

(***************************************************************************)
(* Log records and outcomes.  A finding is one logging.error or            *)
(* logging.warning call of validate_config.  key is the text its message   *)
(* names; expected and actual are the types a type-mismatch message names. *)
(* at is history: the keys of the enclosing recursive calls, from the      *)
(* root.  The code has no such value and no message prints it.             *)
(***************************************************************************)
Finding(level, kind, key, expected, actual, at) ==
  [level |-> level, kind |-> kind, key |-> key,
   expected |-> expected, actual |-> actual, at |-> at]

\* what one step of validate_config did: the findings it logged, whether it
\* left valid alone (TRUE) or set it to False, whether an exception escaped
Outcome(valid, log, raised) == [valid |-> valid, log |-> log, raised |-> raised]

Nothing == Outcome(TRUE, <<>>, FALSE)

\* MissingKey logging the strict case at warning level
MissingKeyWarnsInStrict(key, strict, ignore_missing_, at) ==
  IF strict
  THEN Outcome(FALSE, <<Finding("WARNING", "MissingKey", key, "", "", at)>>, FALSE)
  ELSE IF ~ignore_missing_
  THEN Outcome(TRUE, <<Finding("WARNING", "MissingKey", key, "", "", at)>>, FALSE)
  ELSE Nothing

\* MissingKey testing ignore_missing before strict
MissingKeyIgnoreFirst(key, strict, ignore_missing_, at) ==
  IF ignore_missing_ THEN Nothing
  ELSE IF strict
  THEN Outcome(FALSE, <<Finding("ERROR", "MissingKey", key, "", "", at)>>, FALSE)
  ELSE Outcome(TRUE, <<Finding("WARNING", "MissingKey", key, "", "", at)>>, FALSE)

\* MissingKey setting valid to False for the warning too
MissingKeyWarningInvalidates(key, strict, ignore_missing_, at) ==
  IF strict
  THEN Outcome(FALSE, <<Finding("ERROR", "MissingKey", key, "", "", at)>>, FALSE)
  ELSE IF ~ignore_missing_
  THEN Outcome(FALSE, <<Finding("WARNING", "MissingKey", key, "", "", at)>>, FALSE)
  ELSE Nothing

\* main.py:162-167: the template's key is not in the configuration
MissingKey(key, strict, ignore_missing_, at) ==
  IF strict
  THEN Outcome(FALSE, <<Finding("ERROR", "MissingKey", key, "", "", at)>>, FALSE)
  ELSE IF ~ignore_missing_
  THEN Outcome(TRUE, <<Finding("WARNING", "MissingKey", key, "", "", at)>>, FALSE)
  ELSE Nothing

\* main.py:174-177: the template's value is a dict, the configuration's is not
ExpectedDict(key, config_value, at) ==
  Outcome(FALSE,
          <<Finding("ERROR", "TypeMismatch", key, "dict", config_value.type, at)>>,
          FALSE)

\* CompareTypes comparing the values instead of their types
CompareValues(key, config_value, template_value, at) ==
  IF template_value # config_value
  THEN Outcome(FALSE,
               <<Finding("ERROR", "TypeMismatch", key,
                         template_value.type, config_value.type, at)>>,
               FALSE)
  ELSE Nothing

\* main.py:181-186: the template's value is no dict: type(template_value)
\* against type(config_value)
CompareTypes(key, config_value, template_value, at) ==
  LET expected_type == template_value.type
      actual_type   == config_value.type
  IN  IF expected_type # actual_type
      THEN Outcome(FALSE,
                   <<Finding("ERROR", "TypeMismatch", key,
                             expected_type, actual_type, at)>>,
                   FALSE)
      ELSE Nothing

\* main.py:190-192: one warning per element of config_data that is not a key
\* of template_data (a dict here), in config_data's order
RECURSIVE ExtraKeyWarnings(_, _, _)
ExtraKeyWarnings(names, template_data_, at) ==
  IF names = <<>> THEN <<>>
  ELSE (IF Head(names) \notin KeySet(template_data_)
        THEN <<Finding("WARNING", "ExtraKey", Head(names), "", "", at)>>
        ELSE <<>>)
       \o ExtraKeyWarnings(Tail(names), template_data_, at)

\* ExtraKeys without the test of the two flags
ExtraKeysAlways(config_data_, template_data_, strict, ignore_missing_, at) ==
  IF NotIterable(config_data_) THEN Outcome(TRUE, <<>>, TRUE)
  ELSE Outcome(TRUE, ExtraKeyWarnings(Iterate(config_data_), template_data_, at), FALSE)

\* main.py:188-192: the extra-key pass
ExtraKeys(config_data_, template_data_, strict, ignore_missing_, at) ==
  IF ~strict /\ ~ignore_missing_
  THEN IF NotIterable(config_data_)
       THEN Outcome(TRUE, <<>>, TRUE)
       ELSE Outcome(TRUE,
                    ExtraKeyWarnings(Iterate(config_data_), template_data_, at),
                    FALSE)
  ELSE Nothing

\* the effect of one more step on the function so far: its findings follow
\* the earlier ones, valid stays False once set (main.py:165,176,179,186), an
\* exception escapes
Then(acc, step) ==
  Outcome(acc.valid /\ step.valid, acc.log \o step.log, step.raised)

(***************************************************************************)
(* validate_config (main.py:146-194).  The fifth parameter is the history  *)
(* value `at` of the findings: the code's function has four.               *)
(***************************************************************************)
RECURSIVE validate_config(_, _, _, _, _)
RECURSIVE CheckKey(_, _, _, _, _, _)
RECURSIVE TemplateLoop(_, _, _, _, _, _, _)
RECURSIVE TemplateLoopStopsAtError(_, _, _, _, _, _, _)

\* main.py:162-186: the body of the loop for the i-th item of template_data
CheckKey(config_data_, template_data_, strict, ignore_missing_, at, i) ==
  LET key            == template_data_.items[i].key
      template_value == template_data_.items[i].value
      present        == Contains(config_data_, key)
  IN  IF present = "TypeError" THEN Outcome(TRUE, <<>>, TRUE)
      ELSE IF present = "no" THEN MissingKey(key, strict, ignore_missing_, at)
      \* config_data[key] of a list or a str raises TypeError (main.py:171)
      ELSE IF ~IsDict(config_data_) THEN Outcome(TRUE, <<>>, TRUE)
      ELSE LET config_value == Get(config_data_, key)
           IN  IF IsDict(template_value)
               THEN IF ~IsDict(config_value)
                    THEN ExpectedDict(key, config_value, at)
                    ELSE validate_config(config_value, template_value, strict,
                                         ignore_missing_, Append(at, key))
               ELSE CompareTypes(key, config_value, template_value, at)

\* TemplateLoop returning at the first error instead of going on
TemplateLoopStopsAtError(config_data_, template_data_, strict, ignore_missing_, at, i, acc) ==
  IF i > Len(template_data_.items) \/ acc.raised \/ ~acc.valid THEN acc
  ELSE TemplateLoop(config_data_, template_data_, strict, ignore_missing_, at, i + 1,
                    Then(acc, CheckKey(config_data_, template_data_, strict,
                                       ignore_missing_, at, i)))

\* main.py:161: the loop over template_data.items(), from its i-th item on,
\* acc being what the call did so far
TemplateLoop(config_data_, template_data_, strict, ignore_missing_, at, i, acc) ==
  IF i > Len(template_data_.items) \/ acc.raised THEN acc
  ELSE TemplateLoop(config_data_, template_data_, strict, ignore_missing_, at, i + 1,
                    Then(acc, CheckKey(config_data_, template_data_, strict,
                                       ignore_missing_, at, i)))

validate_config(config_data_, template_data_, strict, ignore_missing_, at) ==
  \* template_data.items() of a value that is no dict raises AttributeError
  IF ~IsDict(template_data_) THEN Outcome(TRUE, <<>>, TRUE)
  ELSE LET looped == TemplateLoop(config_data_, template_data_, strict,
                                  ignore_missing_, at, 1, Nothing)
       IN  IF looped.raised THEN looped
           ELSE Then(looped, ExtraKeys(config_data_, template_data_, strict,
                                       ignore_missing_, at))

(***************************************************************************)
(* The documents of the model: every dict of at most n keys in all (over   *)
(* all nesting levels), with keys of Keys and the given scalars, in every  *)
(* insertion order; and the values a document may hold at its root instead *)
(* of a mapping.  The template's scalars are one value of each type, the   *)
(* configuration's add a second int, so that values of one type differ.    *)
(***************************************************************************)
TemplateScalars == {PyInt("1"), PyStr("x")}

ConfigScalars == {PyInt("1"), PyInt("2"), PyStr("x")}

RECURSIVE ItemSeqs(_, _, _)
RECURSIVE ValuesOfSize(_, _)

\* the item sequences of n keys in all whose own keys are distinct keys of avail
ItemSeqs(n, avail, scalars) ==
  IF n = 0 THEN {<<>>}
  ELSE UNION { UNION { { <<Item(k, v)>> \o rest :
                           v \in ValuesOfSize(m, scalars),
                           rest \in ItemSeqs(n - 1 - m, avail \ {k}, scalars) }
                       : m \in 0..(n - 1) }
               : k \in avail }

ValuesOfSize(n, scalars) ==
  IF n = 0 THEN scalars \cup {PyDict(<<>>)}
  ELSE {PyDict(items) : items \in ItemSeqs(n, Keys, scalars)}

DictsUpTo(n, scalars) ==
  UNION {{v \in ValuesOfSize(m, scalars) : IsDict(v)} : m \in 0..n}

NotMappings == {PyList(<<>>), PyList(<<PyStr("a")>>), PyStr("a"), PyNone, PyInt("1")}

ConfigDocuments == DictsUpTo(MaxConfigSize, ConfigScalars) \cup NotMappings

TemplateDocuments == DictsUpTo(MaxTemplateSize, TemplateScalars) \cup NotMappings

(***************************************************************************)
(* Spec: a driver calls validate_config on one pair of documents, first    *)
(* with strict off, then with strict on, and keeps what each call did.     *)
(***************************************************************************)
NotCalled == [called |-> FALSE, valid |-> FALSE, log |-> <<>>, raised |-> FALSE]

Called(outcome) ==
  [called |-> TRUE, valid |-> outcome.valid, log |-> outcome.log,
   raised |-> outcome.raised]

NoCli == [file_type |-> "None", ext |-> "", lint |-> FALSE, strict |-> FALSE]

Init ==
  /\ config_data \in ConfigDocuments
  /\ template_data \in TemplateDocuments
  /\ ignore_missing \in BOOLEAN
  /\ runs = [s \in BOOLEAN |-> NotCalled]
  /\ pc = "driver"
  /\ cli = NoCli
  /\ file_type = "None"
  /\ linter = "none"
  /\ exit_status = -1

Validate(strict) ==
  /\ pc = "driver"
  /\ ~runs[strict].called
  /\ strict => runs[FALSE].called
  /\ runs' = [runs EXCEPT ![strict] =
                Called(validate_config(config_data, template_data, strict,
                                       ignore_missing, <<>>))]
  /\ UNCHANGED <<config_data, template_data, ignore_missing, pc, cli,
                 file_type, linter, exit_status>>

Next == \E strict \in BOOLEAN : Validate(strict)

Spec == Init /\ [][Next]_vars

(***************************************************************************)
(* SpecMain: one run of main() (main.py:197-235).                          *)
(***************************************************************************)
NotLoaded == [type |-> "unloaded", val |-> "", items |-> <<>>]

\* the type a file name's extension stands for (main.py:208-211, 80-83)
ExtensionType(ext) ==
  IF ext = ".json" THEN "json"
  ELSE IF ext \in {".yaml", ".yml"} THEN "yaml"
  ELSE "None"

\* lint_file (main.py:107-143).  tool is how the linter's subprocess ended:
\* "zero" or "nonzero" return code, "not_found" (no such program) or "error"
\* (any other exception of subprocess.run)
lint_file(file_type_, tool) ==
  IF file_type_ \in {"yaml", "json"} THEN tool = "zero" ELSE FALSE

LinterEnds == {"zero", "nonzero", "not_found", "error"}

\* load_file (main.py:61-104) of a file that is "missing", "malformed" or
\* "ok" with the document it holds: the document, or raised
load_file(ext, file_type_, file) ==
  IF file.state = "missing" THEN [raised |-> TRUE, data |-> NotLoaded]
  ELSE LET type == IF file_type_ = "None" THEN ExtensionType(ext) ELSE file_type_
       IN  IF type \notin {"json", "yaml"} \/ file.state = "malformed"
           THEN [raised |-> TRUE, data |-> NotLoaded]
           ELSE [raised |-> FALSE, data |-> file.content]

MainDocuments == DictsUpTo(MaxMainSize, ConfigScalars) \cup NotMappings

Files ==
  {[state |-> "missing", content |-> NotLoaded],
   [state |-> "malformed", content |-> NotLoaded]}
  \cup {[state |-> "ok", content |-> d] : d \in MainDocuments}

InitMain ==
  /\ cli \in [file_type : {"None", "json", "yaml"},
              ext : {".json", ".yaml", ".yml", ".txt"},
              lint : BOOLEAN,
              strict : BOOLEAN]
  /\ ignore_missing \in BOOLEAN
  /\ pc = "infer"
  /\ file_type = "None"
  /\ linter = "none"
  /\ config_data = NotLoaded
  /\ template_data = NotLoaded
  /\ runs = [s \in BOOLEAN |-> NotCalled]
  /\ exit_status = -1

\* sys.exit(status), and the return of main() as sys.exit(0)
Exit(status) == pc' = "exited" /\ exit_status' = status

\* main.py:205-214: parser.error exits with status 2
InferFileType ==
  /\ pc = "infer"
  /\ file_type' = IF cli.file_type = "None" THEN ExtensionType(cli.ext)
                  ELSE cli.file_type
  /\ IF file_type' = "None" THEN Exit(2)
     ELSE pc' = "lint" /\ UNCHANGED exit_status
  /\ UNCHANGED <<config_data, template_data, ignore_missing, runs, cli, linter>>

\* AfterLint going on whatever lint_file returned
AfterLintIgnoresResult(requested, passed) == "load_config"

\* main.py:217-220: where main goes after the linting step
AfterLint(requested, passed) ==
  IF requested /\ ~passed THEN "exit" ELSE "load_config"

\* main.py:216-220: lint_file is called only when --lint was given
Lint ==
  /\ pc = "lint"
  /\ IF ~cli.lint
     THEN /\ pc' = AfterLint(FALSE, FALSE)
          /\ UNCHANGED <<linter, exit_status>>
     ELSE \E tool \in LinterEnds :
            /\ linter' = tool
            /\ IF AfterLint(TRUE, lint_file(file_type, tool)) = "exit"
               THEN Exit(1)
               ELSE pc' = "load_config" /\ UNCHANGED exit_status
  /\ UNCHANGED <<config_data, template_data, ignore_missing, runs, cli, file_type>>

\* main.py:223; an exception of load_file reaches main.py:233-235
LoadConfig ==
  /\ pc = "load_config"
  /\ \E file \in Files :
       LET loaded == load_file(cli.ext, file_type, file)
       IN  IF loaded.raised
           THEN Exit(1) /\ UNCHANGED config_data
           ELSE /\ config_data' = loaded.data
                /\ pc' = "load_template"
                /\ UNCHANGED exit_status
  /\ UNCHANGED <<template_data, ignore_missing, runs, cli, file_type, linter>>

\* main.py:224: the template is loaded as the configuration's file type
LoadTemplate ==
  /\ pc = "load_template"
  /\ \E file \in Files :
       LET loaded == load_file(cli.ext, file_type, file)
       IN  IF loaded.raised
           THEN Exit(1) /\ UNCHANGED template_data
           ELSE /\ template_data' = loaded.data
                /\ pc' = "validate"
                /\ UNCHANGED exit_status
  /\ UNCHANGED <<config_data, ignore_missing, runs, cli, file_type, linter>>

\* main.py:227-235: an exception of validate_config is caught at 233
ValidateAndExit ==
  /\ pc = "validate"
  /\ LET outcome == validate_config(config_data, template_data, cli.strict,
                                    ignore_missing, <<>>)
     IN  /\ runs' = [runs EXCEPT ![cli.strict] = Called(outcome)]
         /\ IF outcome.raised THEN Exit(1)
            ELSE IF outcome.valid THEN Exit(0)
            ELSE Exit(1)
  /\ UNCHANGED <<config_data, template_data, ignore_missing, cli, file_type, linter>>

NextMain ==
  \/ InferFileType
  \/ Lint
  \/ LoadConfig
  \/ LoadTemplate
  \/ ValidateAndExit

SpecMain == InitMain /\ [][NextMain]_vars

(***************************************************************************)
(* Vocabulary of the properties: positions in a pair of documents.         *)
(***************************************************************************)
Absent == [type |-> "absent", val |-> "", items |-> <<>>]

\* the value of document v at path p, Absent when p leaves the document
RECURSIVE Lookup(_, _)
Lookup(v, p) ==
  IF p = <<>> THEN v
  ELSE IF IsDict(v) /\ Head(p) \in KeySet(v)
       THEN Lookup(Get(v, Head(p)), Tail(p))
       ELSE Absent

ConfigAt(p) == Lookup(config_data, p)

TemplateAt(p) == Lookup(template_data, p)

\* the paths, from path at on, at which both documents hold a dict, c and t
\* being the dicts they hold at path at
RECURSIVE LevelsFrom(_, _, _)
LevelsFrom(c, t, at) ==
  {at} \cup UNION {LevelsFrom(Get(c, k), Get(t, k), Append(at, k)) :
                     k \in {x \in KeySet(c) \cap KeySet(t) :
                              IsDict(Get(c, x)) /\ IsDict(Get(t, x))}}

\* the map levels of the pair: the paths at which both documents hold a
\* dict (<<>> is the root)
Levels ==
  IF IsDict(config_data) /\ IsDict(template_data)
  THEN LevelsFrom(config_data, template_data, <<>>)
  ELSE {}

\* both roots are mappings: the arguments validate_config is declared for
MapPair == IsDict(config_data) /\ IsDict(template_data)

\* the calls made so far on a pair of mappings
MapRuns == {s \in BOOLEAN : runs[s].called /\ MapPair}

\* the places of log that hold a finding about key k of the level at path p
EntriesAt(log, p, k) == {i \in DOMAIN log : log[i].at = p /\ log[i].key = k}

IsPrefix(p, q) == Len(p) <= Len(q) /\ SubSeq(q, 1, Len(p)) = p

Errors(log) == {i \in DOMAIN log : log[i].level = "ERROR"}

MissingWarnings(log) ==
  {i \in DOMAIN log : log[i].level = "WARNING" /\ log[i].kind = "MissingKey"}

\* C1: on a pair of mappings validate_config returns True exactly when it
\* logged no error anywhere in the walk; warnings leave the result alone.
C1_ValidIffNoError ==
  \A s \in MapRuns :
    /\ ~runs[s].raised
    /\ runs[s].valid <=> (Errors(runs[s].log) = {})

\* a call that returned True although it logged a warning in a nested map,
\* next to the strict call on the same pair that returned False for an error
\* logged in the nested map
C1_Witness ==
  /\ MapRuns = BOOLEAN
  /\ runs[FALSE].valid
  /\ \E i \in DOMAIN runs[FALSE].log :
       runs[FALSE].log[i].level = "WARNING" /\ runs[FALSE].log[i].at # <<>>
  /\ ~runs[TRUE].valid
  /\ \E i \in DOMAIN runs[TRUE].log :
       runs[TRUE].log[i].level = "ERROR" /\ runs[TRUE].log[i].at # <<>>

\* C2 as claimed: a call whose configuration root or template root is no
\* mapping fails without a verdict and logs no finding.
C2_NonMappingRootFails ==
  \A s \in BOOLEAN :
    runs[s].called /\ ~MapPair => runs[s].raised /\ runs[s].log = <<>>

\* C3: a template key missing from the configuration at a level the walk
\* reaches gets exactly one MissingKey error when strict is set (also with
\* ignore_missing), nothing when only ignore_missing is set, exactly one
\* MissingKey warning otherwise; nothing is logged below the missing key.
C3_MissingKeyPolicy ==
  \A p \in Levels : \A k \in KeySet(TemplateAt(p)) \ KeySet(ConfigAt(p)) :
    \A s \in MapRuns :
      LET log   == runs[s].log
          found == EntriesAt(log, p, k)
      IN  /\ s => /\ Cardinality(found) = 1
                  /\ \A i \in found : log[i].level = "ERROR"
                                      /\ log[i].kind = "MissingKey"
          /\ ~s /\ ignore_missing => found = {}
          /\ ~s /\ ~ignore_missing =>
                  /\ Cardinality(found) = 1
                  /\ \A i \in found : log[i].level = "WARNING"
                                      /\ log[i].kind = "MissingKey"
          /\ \A i \in DOMAIN log : ~IsPrefix(Append(p, k), log[i].at)

\* strict together with ignore_missing, the missing key in a nested map and
\* its template value a map with keys of its own
C3_Witness ==
  /\ ignore_missing
  /\ TRUE \in MapRuns
  /\ \E p \in Levels : \E k \in KeySet(TemplateAt(p)) \ KeySet(ConfigAt(p)) :
       /\ p # <<>>
       /\ KeySet(TemplateAt(Append(p, k))) # {}
       /\ EntriesAt(runs[TRUE].log, p, k) # {}

\* the keys of the configuration at level p that the template has not, in
\* the configuration's order
ExtraAt(p) ==
  LET absent(k) == k \notin KeySet(TemplateAt(p))
  IN  SelectSeq(KeysOf(ConfigAt(p)), absent)

\* the keys of the ExtraKey findings of log made at level p, in log order
ExtraLogged(log, p) ==
  LET here(f) == f.kind = "ExtraKey" /\ f.at = p
      picked  == SelectSeq(log, here)
  IN  [i \in 1..Len(picked) |-> picked[i].key]

\* C4: with neither flag set, every level the walk visits gets one ExtraKey
\* warning per configuration key the template lacks, in the configuration's
\* order and after everything else logged at or below that level; with
\* strict or ignore_missing set no ExtraKey finding is logged at all.
C4_ExtraKeyPass ==
  \A s \in MapRuns :
    LET log == runs[s].log
    IN  /\ s \/ ignore_missing => \A i \in DOMAIN log : log[i].kind # "ExtraKey"
        /\ ~s /\ ~ignore_missing =>
             /\ \A p \in Levels : ExtraLogged(log, p) = ExtraAt(p)
             /\ \A i \in DOMAIN log :
                  log[i].kind = "ExtraKey" =>
                    /\ log[i].level = "WARNING"
                    /\ log[i].at \in Levels
                    /\ \A j \in DOMAIN log :
                         j > i /\ IsPrefix(log[i].at, log[j].at) =>
                           log[j].kind = "ExtraKey" /\ log[j].at = log[i].at

\* an ExtraKey warning of a nested map, logged after another finding of that
\* nested map
C4_Witness ==
  /\ FALSE \in MapRuns
  /\ \E i, j \in DOMAIN runs[FALSE].log :
       /\ i < j
       /\ runs[FALSE].log[j].kind = "ExtraKey"
       /\ runs[FALSE].log[j].at # <<>>
       /\ runs[FALSE].log[i].at = runs[FALSE].log[j].at
       /\ runs[FALSE].log[i].kind # "ExtraKey"

\* C5: for a key in both maps whose template value is no map, a
\* TypeMismatch error is logged exactly when the two type tags differ: never
\* for two values of one type, whatever the values, and always for a nested
\* map in the configuration.
C5_TypeOnlyComparison ==
  \A p \in Levels : \A k \in KeySet(TemplateAt(p)) \cap KeySet(ConfigAt(p)) :
    \A s \in MapRuns :
      LET template_value == Get(TemplateAt(p), k)
          config_value   == Get(ConfigAt(p), k)
          log            == runs[s].log
          found          == EntriesAt(log, p, k)
      IN  ~IsDict(template_value) =>
            IF template_value.type # config_value.type
            THEN /\ Cardinality(found) = 1
                 /\ \A i \in found : /\ log[i].level = "ERROR"
                                     /\ log[i].kind = "TypeMismatch"
                                     /\ log[i].expected = template_value.type
                                     /\ log[i].actual = config_value.type
            ELSE found = {}

\* one call that met an int where the template holds another int and logged
\* nothing for it, and met a nested map where the template holds a scalar and
\* logged the error
C5_Witness ==
  \E s \in MapRuns : \E k1, k2 \in KeySet(template_data) \cap KeySet(config_data) :
    /\ Get(template_data, k1).type = "int"
    /\ Get(config_data, k1).type = "int"
    /\ Get(template_data, k1).val # Get(config_data, k1).val
    /\ EntriesAt(runs[s].log, <<>>, k1) = {}
    /\ ~IsDict(Get(template_data, k2))
    /\ IsDict(Get(config_data, k2))
    /\ \E i \in EntriesAt(runs[s].log, <<>>, k2) : runs[s].log[i].actual = "dict"

\* whether key k of template dict t diverges from configuration dict c under
\* strict flag s: it is missing and missing keys are reported, or its value
\* has the wrong shape
Diverges(s, c, t, k) ==
  IF k \notin KeySet(c) THEN s \/ ~ignore_missing
  ELSE IF IsDict(Get(t, k)) THEN ~IsDict(Get(c, k))
  ELSE Get(t, k).type # Get(c, k).type

\* the place of key k among the keys of dict t
PlaceOf(t, k) == CHOOSE n \in 1..Len(t.items) : t.items[n].key = k

\* C6: the walk goes on after a finding.  Every divergent template key of
\* every level present and map-shaped on both sides is reported; and once a
\* finding is logged for a template key, every divergent template key that
\* follows it in the same map, or follows the enclosing key in an enclosing
\* map, is reported later in the log.
C6_WalkContinues ==
  \A p \in Levels :
    LET c == ConfigAt(p)
        t == TemplateAt(p)
    IN  \A k \in KeySet(t) : \A s \in MapRuns :
          LET log == runs[s].log
          IN  Diverges(s, c, t, k) =>
                /\ EntriesAt(log, p, k) # {}
                /\ \A i \in DOMAIN log :
                     /\ log[i].kind # "ExtraKey"
                     /\ IsPrefix(p, log[i].at)
                     /\ PlaceOf(t, k)
                          > PlaceOf(t, Append(log[i].at, log[i].key)[Len(p) + 1])
                     => \E j \in EntriesAt(log, p, k) : j > i

\* an error logged in a nested map, followed in the log by the finding of a
\* later key of the root
C6_Witness ==
  \E s \in MapRuns : \E i, j \in DOMAIN runs[s].log :
    /\ i < j
    /\ runs[s].log[i].level = "ERROR"
    /\ runs[s].log[i].at # <<>>
    /\ runs[s].log[j].at = <<>>
    /\ runs[s].log[j].kind # "ExtraKey"

\* the key segments the message of finding f names: every f-string of
\* validate_config prints {key} and nothing else (main.py:164,167,175,185,192)
MessagePath(f) == <<f.key>>

\* C7 as claimed: every finding names the full path of its key from the root.
C7_FullPathReported ==
  \A s \in MapRuns : \A i \in DOMAIN runs[s].log :
    MessagePath(runs[s].log[i]) = Append(runs[s].log[i].at, runs[s].log[i].key)

\* C10: on a pair of mappings and for either value of ignore_missing, the
\* strict call logs at least as many errors and at most as many missing-key
\* warnings as the call without strict, and is invalid whenever that one is.
C10_StrictMonotone ==
  MapRuns = BOOLEAN =>
    /\ Cardinality(Errors(runs[TRUE].log)) >= Cardinality(Errors(runs[FALSE].log))
    /\ Cardinality(MissingWarnings(runs[TRUE].log))
         <= Cardinality(MissingWarnings(runs[FALSE].log))
    /\ ~runs[FALSE].valid => ~runs[TRUE].valid

\* a pair invalid without strict for a type error, with a missing key that
\* is a warning without strict and one more error with it
C10_Witness ==
  /\ MapRuns = BOOLEAN
  /\ ~runs[FALSE].valid
  /\ MissingWarnings(runs[FALSE].log) # {}
  /\ Cardinality(Errors(runs[TRUE].log)) > Cardinality(Errors(runs[FALSE].log))
  /\ Errors(runs[FALSE].log) # {}

\* C8: when linting is requested and the linter fails (non-zero status, not
\* installed, any other failure), the run ends with a non-zero status with
\* no file loaded and validate_config not called; a file is loaded and
\* validate_config is called only after linting passed or was not requested.
C8_LintGate ==
  LET validated == \E s \in BOOLEAN : runs[s].called
      loaded    == config_data # NotLoaded \/ template_data # NotLoaded
  IN  /\ cli.lint /\ linter \in LinterEnds \ {"zero"} =>
           /\ pc = "exited"
           /\ exit_status # 0
           /\ ~loaded
           /\ ~validated
      /\ loaded \/ validated \/ pc \in {"load_config", "load_template", "validate"} =>
           \/ ~cli.lint /\ linter = "none"
           \/ cli.lint /\ linter = "zero"

\* a run that asked for linting, whose linter was not installed, and that
\* has exited
C8_Witness ==
  /\ cli.lint
  /\ linter = "not_found"
  /\ pc = "exited"
  /\ exit_status = 1

\* C9 as claimed: the exit status is 0 only when both documents were loaded
\* and validation returned valid, and is non-zero whenever a loaded root is
\* no mapping.
C9_ExitStatus ==
  pc = "exited" =>
    /\ exit_status = 0 =>
         /\ config_data # NotLoaded
         /\ template_data # NotLoaded
         /\ runs[cli.strict].called
         /\ runs[cli.strict].valid
         /\ ~runs[cli.strict].raised
    /\ /\ config_data # NotLoaded
       /\ template_data # NotLoaded
       /\ ~MapPair
       => exit_status # 0

=============================================================================
